---- MODULE Spec2Model ----
(***************************************************************************)
(* A model of gitgraph.py: the rail (column) bookkeeping of print_row and  *)
(* print_lines, and the ASCII connector art of ascii_merge, ascii_branch,  *)
(* _ascii_split and _ascii_crossover.                                      *)
(*                                                                         *)
(* Commit ids are the integers 1, 2, ... in the order of the commit        *)
(* sequence, so ids are unique by construction.  A text line is a sequence *)
(* of one-character strings.  The input (the commit sequence and the child *)
(* map) is read one commit at a time: print_row looks only at the children *)
(* count of the commit it renders and at the set of commits that list it   *)
(* as a child, so both are drawn when the commit is rendered.              *)
(***************************************************************************)
EXTENDS Integers, Sequences, FiniteSets

VARIABLES
    n,          \* number of commits of the sequence handed to print_row so far
    columns,    \* cols of print_lines: the rail sequence carried row to row
    pending,    \* pending[c]: len(children[c]) minus the children of c already handed over
    cur,        \* the input of the last print_row call: parents, kids, msg
    prev,       \* the columns argument of the last print_row call
    new,        \* the local `new` of the last print_row call (<<>> when never assigned)
    printed,    \* the lines the last print_row call printed: merge art, row, branch art
    err,        \* "none", or the error that ended print_lines
    ordered,    \* every commit so far came after all of its parents
    binary,     \* every commit so far has at most two parents
    splits,     \* _ascii_split called on its own: its argument
    i,          \* ... its loop index
    result,     \* ... its list `new`
    spc         \* ... "idle" (not called), "loop" or "done" (returned)

vars == <<n, columns, pending, cur, prev, new, printed, err, ordered, binary,
          splits, i, result, spc>>

\* ---------------------------------------------------------------- bounds
MaxCommits == 4
MaxKids == 2
MaxParents == 3
WideKids == 22
MaxRails == 26
MaxSplits == 14

\* format_line's display width
Width == 80

\* ---------------------------------------------------------------- text helpers
\* Python's s * k: k copies of s end to end, none when k <= 0
Rep(s, k) == [j \in 1..(IF k <= 0 THEN 0 ELSE k * Len(s)) |-> s[((j - 1) % Len(s)) + 1]]

\* Python's ' '.join(glyphs) for one-character glyphs
JoinGlyphs(glyphs) ==
    [j \in 1..(IF glyphs = <<>> THEN 0 ELSE 2 * Len(glyphs) - 1) |->
        IF j % 2 = 1 THEN glyphs[(j + 1) \div 2] ELSE " "]

RECURSIVE RStrip(_)
\* Python's line.rstrip(): the lines hold no whitespace but spaces
RStrip(line) ==
    IF line # <<>> /\ line[Len(line)] = " " THEN RStrip(SubSeq(line, 1, Len(line) - 1))
    ELSE line

\* Python's s[:k]
Take(s, k) == SubSeq(s, 1, IF Len(s) < k THEN Len(s) ELSE k)

Digit(d) == <<"0", "1", "2", "3", "4", "5", "6", "7", "8", "9">>[d + 1]

RECURSIVE Str(_)
\* Python's str(name) of a commit id
Str(name) == IF name < 10 THEN <<Digit(name)>> ELSE Str(name \div 10) \o <<Digit(name % 10)>>

\* ---------------------------------------------------------------- list helpers
Range(s) == {s[x] : x \in 1..Len(s)}

\* Python's s.count(x)
Count(s, x) == Cardinality({j \in 1..Len(s) : s[j] = x})

\* Python's s.index(x), 0-based; -1 stands for the ValueError of a missing x
Index(s, x) ==
    IF x \in Range(s) THEN (CHOOSE j \in 1..Len(s) : s[j] = x /\ \A h \in 1..(j - 1) : s[h] # x) - 1
    ELSE -1

RECURSIVE Sum(_)
\* sum(v for k, v in groups)
Sum(groups) == IF groups = <<>> THEN 0 ELSE groups[1][2] + Sum(Tail(groups))

RECURSIVE GroupBy(_)
\* [(k, len(list(v))) for k, v in groupby(s)]: runs of equal neighbours
GroupBy(s) ==
    IF s = <<>> THEN <<>>
    ELSE LET rest == GroupBy(Tail(s))
         IN  IF rest # <<>> /\ rest[1][1] = s[1]
             THEN <<(<<s[1], rest[1][2] + 1>>)>> \o Tail(rest)
             ELSE <<(<<s[1], 1>>)>> \o rest

\* ---------------------------------------------------------------- merge (lines 53-71)
\* the sentinel label print_row puts on the rails being merged
ToMerge == 0

\* merge that consumes every rail of a parent, not only the first
MergeColAll(st, col, parents, name) ==
    IF col \in parents
    THEN IF col \in st.parents_merged
         THEN st
         ELSE [new |-> IF st.node_written THEN st.new ELSE Append(st.new, name),
               parents_merged |-> st.parents_merged \cup {col},
               node_written |-> TRUE]
    ELSE [st EXCEPT !.new = Append(@, col)]

\* merge that relabels the later rails of a parent as well
MergeColRename(st, col, parents, name) ==
    IF col \in parents
    THEN IF col \in st.parents_merged
         THEN [st EXCEPT !.new = Append(@, name)]
         ELSE [new |-> IF st.node_written THEN st.new ELSE Append(st.new, name),
               parents_merged |-> st.parents_merged \cup {col},
               node_written |-> TRUE]
    ELSE [st EXCEPT !.new = Append(@, col)]

\* one pass of merge's loop body over column col; st holds the locals
\* new, parents_merged and node_written
MergeCol(st, col, parents, name) ==
    IF col \in parents
    THEN IF col \in st.parents_merged
         THEN [st EXCEPT !.new = Append(@, col)]
         ELSE [new |-> IF st.node_written THEN st.new ELSE Append(st.new, name),
               parents_merged |-> st.parents_merged \cup {col},
               node_written |-> TRUE]
    ELSE [st EXCEPT !.new = Append(@, col)]

RECURSIVE MergeLoop(_, _, _, _)
\* for col in columns: ...
MergeLoop(st, cols, parents, name) ==
    IF cols = <<>> THEN st
    ELSE MergeLoop(MergeCol(st, cols[1], parents, name), Tail(cols), parents, name)

\* merge(columns, parents, name): ok is the assertion sorted(parents) ==
\* sorted(parents_merged); neither list holds a label twice
merge(cols, parents, name) ==
    LET st == MergeLoop([new |-> <<>>, parents_merged |-> {}, node_written |-> FALSE],
                        cols, parents, name)
    IN  [ok |-> parents = st.parents_merged, new |-> st.new]

\* ---------------------------------------------------------------- branch (lines 74-81)
\* branch that fans out every rail
BranchColEvery(c, nkids, name) == Rep(<<c>>, nkids)

\* branch that never fans out
BranchColKeep(c, nkids, name) == <<c>>

\* what one column contributes to branch's result
BranchCol(c, nkids, name) == IF c = name THEN Rep(<<name>>, nkids) ELSE <<c>>

RECURSIVE branch(_, _, _)
\* branch(columns, children, name), with nkids = len(children)
branch(cols, nkids, name) ==
    IF cols = <<>> THEN <<>>
    ELSE BranchCol(cols[1], nkids, name) \o branch(Tail(cols), nkids, name)

\* ---------------------------------------------------------------- _ascii_split (lines 84-109)
\* the line that opens branch j: '| '*j + '|\\'
SplitOpen(j) == Rep(<<"|", " ">>, j) \o <<"|", "\\">>

\* the line that steps down after branch j: '| '*(j+1) + '\\'
SplitDown(j) == Rep(<<"|", " ">>, j + 1) \o <<"\\">>

\* a loop body without the break of lines 105-106
SplitBodyNoBreak(j, k) == <<SplitOpen(j), SplitDown(j)>>

\* what the loop body appends at index j: the last index breaks before the step down
SplitBody(j, k) == IF j = k - 1 THEN <<SplitOpen(j)>> ELSE <<SplitOpen(j), SplitDown(j)>>

RECURSIVE SplitFrom(_, _)
\* for i in range(splits), from index j on
SplitFrom(j, k) ==
    IF j >= k THEN <<>>
    ELSE IF j = k - 1 THEN SplitBody(j, k)
    ELSE SplitBody(j, k) \o SplitFrom(j + 1, k)

\* _ascii_split(splits)
AsciiSplit(k) == SplitFrom(0, k)

\* ---------------------------------------------------------------- ascii_branch (lines 112-138)
RECURSIVE FirstDiff(_, _, _)
\* the loop over zip(start_groups, finish_groups) from 1-based position g:
\* the position it breaks at, 0 when it runs out, -1 when an assertion fails
FirstDiff(sg, fg, g) ==
    IF g > Len(sg) \/ g > Len(fg) THEN 0
    ELSE IF sg[g][1] # fg[g][1] THEN -1
    ELSE IF sg[g][2] = fg[g][2] THEN FirstDiff(sg, fg, g + 1)
    ELSE IF fg[g][2] > sg[g][2] THEN g ELSE -1

\* final.append(' '.join(['|'] * before + [line] + ['\\'] * after))
BranchLine(before, line, after) ==
    Rep(<<"|", " ">>, before) \o line \o Rep(<<" ", "\\">>, after)

\* ascii_branch(start, finish): ok is FALSE when one of its assertions fails
ascii_branch(start, finish) ==
    LET sg == GroupBy(start)
        fg == GroupBy(finish)
        g  == FirstDiff(sg, fg, 1)
    IN  IF ~(Len(start) < Len(finish)) \/ Range(start) # Range(finish) \/ g = -1
        THEN [ok |-> FALSE, lines |-> <<>>]
        ELSE IF g = 0
        THEN [ok |-> TRUE, lines |-> <<>>]   \* c1 = c2 of the last pair: _ascii_split(0) is empty
        ELSE LET grow   == fg[g][2] - sg[g][2]
                 before == Sum(SubSeq(fg, 1, g - 1)) + grow - 1
                 after  == Sum(SubSeq(fg, g + 1, Len(fg)))
                 split  == AsciiSplit(grow)
             IN  [ok |-> TRUE,
                  lines |-> [j \in 1..Len(split) |-> BranchLine(before, split[j], after)]]

\* ---------------------------------------------------------------- _ascii_crossover (lines 141-154)
AsciiCrossover(crosses) ==
    << <<"|", " ">> \o Rep(<<"|", " ">>, crosses) \o <<" ", "\\">>,
       <<"|", " ">> \o Rep(<<"|", "_">>, crosses) \o <<"_", "/">>,
       <<"|", "/">> \o Rep(<<"|", " ">>, crosses) \o <<" ", " ">>,
       <<"|", " ">> \o Rep(<<"|", " ">>, crosses) \o <<" ">> >>

\* ---------------------------------------------------------------- ascii_merge (lines 157-196)
\* an assertion that only asks for fewer rails after the merge
ArityLoose(start, finish) == Len(start) > Len(finish)

\* the assertion of line 178: only 2-way merges
ArityOK(start, finish) == Len(start) - 1 = Len(finish)

\* (Counter(start) - Counter(finish)).keys()
MergedKeys(start, finish) == {x \in Range(start) : Count(start, x) > Count(finish, x)}

\* the four lines without line 195's rstrip
MergeLinesRaw(dest, origin, after) ==
    LET cross == AsciiCrossover(origin - dest - 1)
        pad   == Rep(<<"|", " ">>, dest)
    IN  << pad \o cross[1] \o Rep(<<" ", "\\">>, after),
           pad \o cross[2] \o Rep(<<" ", "/">>, after),
           pad \o cross[3] \o Rep(<<"/", " ">>, after),
           pad \o cross[4] \o Rep(<<"/", " ">>, after) >>

\* the four lines of lines 188-195, right-stripped
MergeLines(dest, origin, after) ==
    LET cross == AsciiCrossover(origin - dest - 1)
        pad   == Rep(<<"|", " ">>, dest)
        lines == << pad \o cross[1] \o Rep(<<" ", "\\">>, after),
                    pad \o cross[2] \o Rep(<<" ", "/">>, after),
                    pad \o cross[3] \o Rep(<<"/", " ">>, after),
                    pad \o cross[4] \o Rep(<<"/", " ">>, after) >>
    IN  [j \in 1..4 |-> RStrip(lines[j])]

\* ascii_merge(start, finish): err names the failure, "none" when it returns
ascii_merge(start, finish) ==
    IF ~ArityOK(start, finish) THEN [err |-> "UnsupportedMergeArity", lines |-> <<>>]
    ELSE LET keys == MergedKeys(start, finish)
         IN  IF Cardinality(keys) # 1 THEN [err |-> "ValueError", lines |-> <<>>]
             ELSE LET merged == CHOOSE x \in keys : TRUE
                      dest   == Index(finish, merged)
                  IN  IF dest = -1 THEN [err |-> "ValueError", lines |-> <<>>]
                      ELSE IF dest # Index(start, merged)
                      THEN [err |-> "LayoutInconsistency", lines |-> <<>>]
                      ELSE LET rest   == Index(SubSeq(start, dest + 2, Len(start)), merged)
                               origin == dest + rest + 1
                               after  == Len(start) - origin - 1
                           IN  IF rest = -1 THEN [err |-> "ValueError", lines |-> <<>>]
                               ELSE [err |-> "none", lines |-> MergeLines(dest, origin, after)]

\* ---------------------------------------------------------------- format_line (lines 213-214)
\* the row before truncation
RowText(name, cols, msg) ==
    JoinGlyphs([j \in 1..Len(cols) |-> IF cols[j] = name THEN "o" ELSE "|"])
        \o <<" ", " ", " ">> \o Str(name)
        \o (IF msg # <<>> THEN <<" ">> \o msg ELSE <<>>)

\* format_line without the [:80]
FormatLineWhole(name, cols, msg) == RowText(name, cols, msg)

\* format_line(name, columns, msg); msg = <<>> stands for None and for ''
FormatLine(name, cols, msg) == Take(RowText(name, cols, msg), Width)

\* ---------------------------------------------------------------- print_row (lines 217-249)
RECURSIVE PreMerge(_, _, _)
\* the loop of lines 228-235: the first rail of each parent becomes 'to_merge'
PreMerge(cols, parents, parents_merged) ==
    IF cols = <<>> THEN <<>>
    ELSE IF cols[1] \in parents /\ cols[1] \notin parents_merged
         THEN <<ToMerge>> \o PreMerge(Tail(cols), parents, parents_merged \cup {cols[1]})
         ELSE <<cols[1]>> \o PreMerge(Tail(cols), parents, parents_merged)

\* lines 236-237: [c if c in columns else 'to_merge' for c in new]
PostMerge(cols, merged) ==
    [j \in 1..Len(merged) |-> IF merged[j] \in Range(cols) THEN merged[j] ELSE ToMerge]

\* nothing printed
NoLines == [merge |-> <<>>, row |-> <<>>, branch |-> <<>>]

\* the messages a commit may carry; <<>> is a commit without one
Msgs == {<<>>, <<"m", "s", "g">>}

\* the commits that may name commit n + 1 as a child: those already rendered
\* that still wait for a child, and one that comes later in the sequence
Candidates == {c \in 1..n : pending[c] > 0} \cup {n + 2}

\* the child map after commit n + 1, with parents ps and k children, is read
Consume(ps, k) == Append([c \in 1..n |-> IF c \in ps THEN pending[c] - 1 ELSE pending[c]], k)

\* print_row(commit, children, None, msg): the first commit of print_lines (lines 218-220, 252)
First(k, msg) ==
    /\ n = 0
    /\ err = "none"
    /\ n' = 1
    /\ prev' = <<>>
    /\ new' = <<1>>
    /\ printed' = [NoLines EXCEPT !.row = FormatLine(1, <<1>>, msg)]
    /\ columns' = <<1>>
    /\ pending' = <<k>>
    /\ cur' = [parents |-> {}, kids |-> k, msg |-> msg]
    /\ UNCHANGED <<err, ordered, binary, splits, i, result, spc>>

\* print_row(commit, children, cols, msg) for commit n + 1 (lines 222-249, 253-254)
PrintRow(ps, k, msg) ==
    /\ n >= 1
    /\ n < MaxCommits
    /\ err = "none"
    /\ n' = n + 1
    /\ prev' = columns
    /\ cur' = [parents |-> ps, kids |-> k, msg |-> msg]
    /\ pending' = Consume(ps, k)
    /\ ordered' = (ordered /\ ps \subseteq 1..n)
    /\ binary' = (binary /\ Cardinality(ps) <= 2)
    /\ UNCHANGED <<splits, i, result, spc>>
    /\ LET commit == n + 1
           m      == IF ps = {} THEN [ok |-> TRUE, new |-> Append(columns, commit)]
                     ELSE merge(columns, ps, commit)
           art    == IF Cardinality(ps) > 1
                     THEN ascii_merge(PreMerge(columns, ps, {}), PostMerge(columns, m.new))
                     ELSE [err |-> "none", lines |-> <<>>]
           newer  == branch(m.new, k, commit)
           split  == IF k > 1 THEN ascii_branch(m.new, newer) ELSE [ok |-> TRUE, lines |-> <<>>]
           row    == FormatLine(commit, m.new, msg)
       IN  IF ~m.ok
           THEN /\ err' = "LayoutInconsistency"
                /\ new' = <<>>
                /\ printed' = NoLines
                /\ columns' = columns
           ELSE IF art.err # "none"
           THEN /\ err' = art.err
                /\ new' = m.new
                /\ printed' = NoLines
                /\ columns' = columns
           ELSE IF ~split.ok
           THEN /\ err' = "LayoutInconsistency"
                /\ new' = m.new
                /\ printed' = [merge |-> art.lines, row |-> row, branch |-> <<>>]
                /\ columns' = columns
           ELSE /\ err' = "none"
                /\ new' = m.new
                /\ printed' = [merge |-> art.lines, row |-> row, branch |-> split.lines]
                /\ columns' = newer

\* ---------------------------------------------------------------- print_lines (lines 251-254)
Init ==
    /\ n = 0
    /\ columns = <<>>
    /\ pending = <<>>
    /\ cur = [parents |-> {}, kids |-> 0, msg |-> <<>>]
    /\ prev = <<>>
    /\ new = <<>>
    /\ printed = NoLines
    /\ err = "none"
    /\ ordered = TRUE
    /\ binary = TRUE
    /\ splits = 0
    /\ i = 0
    /\ result = <<>>
    /\ spc = "idle"

FirstRow == \E k \in 0..MaxKids, msg \in Msgs : First(k, msg)

LaterRow ==
    \E ps \in {q \in SUBSET Candidates : Cardinality(q) <= MaxParents}, k \in 0..MaxKids, msg \in Msgs :
        PrintRow(ps, k, msg)

Next == FirstRow \/ LaterRow

Spec == Init /\ [][Next]_vars

\* the same walk over histories with a very wide fan-out and long messages,
\* kept to MaxRails rails
WideMsgs == {<<>>, <<"m", "s", "g">>, Rep(<<"x">>, Width)}

WideFirstRow == \E k \in {0, 1, WideKids}, msg \in WideMsgs : First(k, msg)

WideLaterRow ==
    \E ps \in {q \in SUBSET Candidates : Cardinality(q) <= 2}, k \in {0, 1, WideKids}, msg \in WideMsgs :
        /\ Len(columns) + k <= MaxRails
        /\ PrintRow(ps, k, msg)

WideNext == WideFirstRow \/ WideLaterRow

WideSpec == Init /\ [][WideNext]_vars

\* ---------------------------------------------------------------- _ascii_split called on its own
SplitInit ==
    /\ n = 0
    /\ columns = <<>>
    /\ pending = <<>>
    /\ cur = [parents |-> {}, kids |-> 0, msg |-> <<>>]
    /\ prev = <<>>
    /\ new = <<>>
    /\ printed = NoLines
    /\ err = "none"
    /\ ordered = TRUE
    /\ binary = TRUE
    /\ splits \in 0..MaxSplits
    /\ i = 0
    /\ result = <<>>
    /\ spc = "loop"

\* one pass of the loop of lines 103-107; the break of line 106 leads to the return
SplitIter ==
    /\ spc = "loop"
    /\ i < splits
    /\ result' = result \o SplitBody(i, splits)
    /\ IF i = splits - 1 THEN spc' = "done" /\ i' = i ELSE spc' = spc /\ i' = i + 1
    /\ UNCHANGED <<n, columns, pending, cur, prev, new, printed, err, ordered, binary, splits>>

\* range(splits) is exhausted: return new
SplitReturn ==
    /\ spc = "loop"
    /\ i >= splits
    /\ spc' = "done"
    /\ UNCHANGED <<n, columns, pending, cur, prev, new, printed, err, ordered, binary,
                   splits, i, result>>

SplitNext == SplitIter \/ SplitReturn

SplitSpec == SplitInit /\ [][SplitNext]_vars

\* ================================================================ claims
\* the rails of s whose label is not in the set skip, in order
Foreign(s, skip) == SelectSeq(s, LAMBDA x : x \notin skip)

\* every line the last print_row call printed
PrintedLines == printed.merge \o (IF printed.row = <<>> THEN <<>> ELSE <<printed.row>>) \o printed.branch

\* C1 (as claimed): on an input with unique ids, every commit after all of its
\* parents, a child map that is the inverse of the parent relation and at most
\* two parents per commit, no commit fails: print_lines runs to the end and
\* merge's assertion holds.
C1Claim == (ordered /\ binary) => err = "none"

\* C2 (as claimed): for every commit with N children, the rail sequence print_row
\* returns has the length of the sequence its row was formatted with, minus 1, plus N.
C2Claim == (n >= 1 /\ err = "none") => Len(columns) = Len(new) - 1 + cur.kids

\* C3: for a non-root commit whose parents are all on the rails, merge returns
\* a sequence of length (length before) - (number of parents) + 1, also when a
\* parent occupies more than one rail.
C3Thm ==
    (n >= 2 /\ cur.parents # {} /\ cur.parents \subseteq Range(prev))
        => Len(new) = Len(prev) - Cardinality(cur.parents) + 1

\* C3 witness: a two-parent merge has run where one parent held two rails
C3Witness ==
    /\ err = "none"
    /\ Cardinality(cur.parents) = 2
    /\ cur.parents \subseteq Range(prev)
    /\ \E p \in cur.parents : Count(prev, p) >= 2

\* C4: merge resolution keeps the rails that carry no parent id (same labels,
\* same multiplicities, same order) next to the one rail of the commit itself,
\* and branch expansion keeps the rails that do not carry the commit's id.
C4Thm ==
    (n >= 1 /\ new # <<>>)
        => /\ Foreign(new, cur.parents \cup {n}) = Foreign(prev, cur.parents \cup {n})
           /\ err = "none" => Foreign(columns, {n}) = Foreign(new, {n})

\* C4 witness: a merge and a fan-out have run around rails of other commits
C4Witness ==
    /\ err = "none"
    /\ Cardinality(cur.parents) = 2
    /\ cur.kids = 2
    /\ Len(Foreign(prev, cur.parents)) >= 2
    /\ Len(Foreign(columns, {n})) >= 2

\* C5: when a commit's row is formatted, the rail sequence given to format_line
\* holds the commit's id at exactly one position.
C5Thm == printed.row # <<>> => Count(new, n) = 1

\* C5 witness: the row of a commit whose one parent held two rails was formatted
C5Witness ==
    /\ printed.row # <<>>
    /\ \E p \in 1..n : cur.parents = {p} /\ Count(prev, p) >= 2

\* C6: a commit with three parents, all on the rails, fails with the
\* unsupported-merge-arity error, nothing is printed for it, and no step
\* follows a failure.
C6Thm ==
    [][ /\ err = "none"
        /\ (Cardinality(cur'.parents) = 3 /\ cur'.parents \subseteq Range(columns))
              => (err' = "UnsupportedMergeArity" /\ printed' = NoLines /\ columns' = columns)
      ]_vars

\* C6 witness: a commit with three parents on the rails was handed to print_row
C6Witness ==
    /\ Cardinality(cur.parents) = 3
    /\ cur.parents \subseteq Range(prev)
    /\ err = "UnsupportedMergeArity"

\* a commit M whose two parents are the only two rails
AdjacentMerge ==
    /\ err = "none"
    /\ Len(prev) = 2
    /\ prev[1] # prev[2]
    /\ cur.parents = {prev[1], prev[2]}

\* C7 (as claimed): the merge art of a commit whose two parents are the only
\* two rails has at most two lines.
C7Claim == AdjacentMerge => Len(printed.merge) <= 2

\* C7 (amended): that merge art is the four-line crossover of gap width 0.
C7Thm ==
    AdjacentMerge => printed.merge = << <<"|", " ", " ", "\\">>,
                                        <<"|", " ", "_", "/">>,
                                        <<"|", "/">>,
                                        <<"|">> >>

\* C7 witness: such a merge was rendered
C7Witness == AdjacentMerge /\ printed.row # <<>>

\* C8 (as claimed): every printed line, row or connector art, has at most 80 characters.
C8Claim == \A j \in 1..Len(PrintedLines) : Len(PrintedLines[j]) <= Width

\* C8 (amended): every commit row has at most 80 characters.
C8Thm == Len(printed.row) <= Width

\* C8 witness: a row longer than 80 characters was cut to 80
C8Witness ==
    /\ n >= 1
    /\ printed.row # <<>>
    /\ Len(RowText(n, new, cur.msg)) > Width
    /\ Len(printed.row) = Width

\* C9: for k >= 1, _ascii_split(k) returns 2k - 1 lines and the last one is
\* k - 1 times '| ' followed by '|\'.
C9Thm ==
    (spc = "done" /\ splits >= 1)
        => /\ Len(result) = 2 * splits - 1
           /\ result[Len(result)] = Rep(<<"|", " ">>, splits - 1) \o <<"|", "\\">>

\* C9 witness: _ascii_split(3) has returned
C9Witness == spc = "done" /\ splits = 3 /\ Len(result) = 5

\* C10: after a prefix of a valid oldest-first sequence is rendered without
\* error, every rendered commit but the first holds as many rails as it has
\* children not yet rendered.
C10Thm ==
    (ordered /\ err = "none") => \A c \in 2..n : Count(columns, c) = pending[c]

\* C10 witness: one commit holds two rails for two pending children while the
\* last child of another has just taken its rail
C10Witness ==
    /\ err = "none"
    /\ \E c \in 2..n : Count(columns, c) = 2 /\ pending[c] = 2
    /\ \E d \in 2..n : d \in cur.parents /\ pending[d] = 0 /\ Count(columns, d) = 0
====
